---- MODULE Spec2Model ----
(***************************************************************************)
(* Non-sleeping memory allocation, memory_atomic.c: the chunk pool         *)
(* rtsafe_memory_pool and the tiered allocator rtsafe_memory that is       *)
(* built from several pools.                                               *)
(*                                                                         *)
(* Two caller contexts exist: "mt", a maintenance thread that may block    *)
(* for construction and sleepy, and "rt", the single caller holding the    *)
(* exclusive right to call allocate/deallocate on a pool.  In thread-safe  *)
(* mode the two run concurrently and meet only at the pool mutex; without  *)
(* thread safety the caller guarantees that one call runs at a time.       *)
(*                                                                         *)
(* Addresses are counted in slots.  A chunk is ChunkSlots slots long: the  *)
(* struct list_head at its base, then its data region.  The tiered         *)
(* allocator keeps a pool handle in the first slot of the data region and  *)
(* hands out the slot after it.                                            *)
(***************************************************************************)
EXTENDS Integers, Sequences, FiniteSets, TLC

\* ---------------------------------------------------------------- bounds
\* Number of chunks the system heap can hold at one time.
MaxLive == 4
\* Largest max_preallocated a pool is created with.
MaxPrealloc == 2

\* ------------------------------------------------------- program constants
NULL == 0
DATA_MIN == 1024
DATA_SUB == 100
\* sizeof(rtsafe_memory_pool_handle), a pointer
HandleSize == 8
\* sizeof(size_t) * 8
SizeBits == 64
\* slots of one chunk: list_head, header slot, user data
ChunkSlots == 3

Threads == {"mt", "rt"}

VARIABLES
  ndebug,         \* build: assert() compiled out (NDEBUG)
  faulty,         \* environment: malloc may fail although memory is left
  ready,          \* construction returned true and the handle is published
  mem,            \* struct rtsafe_memory (tiered allocator) with the arguments
                  \* rtsafe_memory_init was called with, or NoMem
  pool,           \* pool handle -> struct rtsafe_memory_pool
  th,             \* thread -> the call it is in and that call's locals
  heap,           \* chunk base address -> [owner, hdr] for every malloc'ed chunk:
                  \* the pool it was malloc'ed for and the content of the first
                  \* slot of its data region (-1: never written)
  held,           \* pointers the application got from allocate and still owns
  assert_failed,  \* "none", or the line of the assertion that aborted the program
  gh              \* history variables used by the properties only

vars == <<ndebug, faulty, ready, mem, pool, th, heap, held, assert_failed, gh>>

\* ------------------------------------------------------------ lists
\* list_empty(head)
list_empty(l) == l = <<>>
\* Mutant of list_add_tail: the node is not linked.
list_add_tail_NoLink(node, l) == l
\* list_add_tail(node, head)
list_add_tail(node, l) == Append(l, node)
\* head->next of a non-empty list
list_first(l) == Head(l)
\* Mutant of list_del_first: the node stays linked.
list_del_first_NoUnlink(l) == l
\* list_del(head->next)
list_del_first(l) == Tail(l)

Members(l) == {l[k] : k \in DOMAIN l}

\* ------------------------------------------------------------ system heap
Addrs == {ChunkSlots * k : k \in 1..MaxLive}
FreeAddrs == Addrs \ DOMAIN heap

\* What malloc(sizeof(struct list_head) + data_size) may return.
MallocResults ==
  IF FreeAddrs = {} THEN {NULL}
  ELSE IF faulty THEN FreeAddrs \cup {NULL} ELSE FreeAddrs

\* The heap after malloc returned a for pool p / after free(a).
HeapAfterMalloc(a, p) ==
  [x \in DOMAIN heap \cup {a} |->
     IF x = a THEN [owner |-> p, hdr |-> -1] ELSE heap[x]]
\* Mutant of HeapAfterFree: the chunk is unlinked but never freed.
HeapAfterFree_Leak(a) == heap
HeapAfterFree(a) == [x \in DOMAIN heap \ {a} |-> heap[x]]

\* ------------------------------------------------------------ threads
Idle == [op |-> "idle", pc |-> "idle", pool |-> 0, i |-> 0, size |-> 0,
         count |-> 0, node_ptr |-> NULL, data |-> NULL]

Running == assert_failed = "none"

\* Without thread safety the caller runs one call at a time.
MayCall(t) ==
  /\ Running
  /\ ready
  /\ th[t].op = "idle"
  /\ (\E p \in DOMAIN pool : ~pool[p].enforce_thread_safety)
        => \A u \in Threads : th[u].op = "idle"

\* No tiered allocator: the application uses a pool directly.
NoMem == [max_size |-> 0, pools_count |-> 0, pools |-> <<>>,
          prealloc_min |-> 0, prealloc_max |-> 0, enforce_thread_safety |-> FALSE]

\* rtsafe_memory_pool_create, lines 70-91: the control state of a new pool.
\* mutex, unused_count2 and pending are initialized only with thread safety;
\* without it they are never read.
NewPool(data_size, min_preallocated, max_preallocated, enforce_thread_safety) ==
  [data_size             |-> data_size,
   min_preallocated      |-> min_preallocated,
   max_preallocated      |-> max_preallocated,
   used_count            |-> 0,
   unused                |-> <<>>,
   unused_count          |-> 0,
   enforce_thread_safety |-> enforce_thread_safety,
   mutex                 |-> "free",
   unused_count2         |-> 0,
   pending               |-> <<>>]

\* ------------------------------------------------------------ history
\* The history of the calls the application makes on a pool it uses
\* directly; the calls of the tiered allocator leave it alone.
PoolOps == {"create", "sleepy", "allocate", "deallocate", "allocate_sleepy"}

\* malloc_failed: some malloc of a chunk returned NULL.
\* ret:    the value the last allocate call gave the application, -1
\*         before the first.
\* pure:   since construction the application called nothing but
\*         rtsafe_memory_pool_allocate; run: the outcomes of those calls.
\* clean:  the maintenance pass in progress on "mt" overlapped no
\*         allocate/deallocate call and none of its mallocs failed.
\* settled: such a pass has completed and no allocate/deallocate call was
\*         made since.
\* freed:  the pointer given to rtsafe_memory_pool_deallocate by the last
\*         call the application made, NULL when that call was another one
\*         or an allocate call has returned since.
GhInit == [malloc_failed |-> FALSE, ret |-> -1, pure |-> TRUE, run |-> <<>>,
           clean |-> TRUE, settled |-> FALSE, freed |-> NULL]

GhMallocFailed(g, op) ==
  IF op \in PoolOps
  THEN [g EXCEPT !.malloc_failed = TRUE, !.clean = FALSE, !.settled = FALSE]
  ELSE g

\* The application calls op on thread t.
GhCall(g, t, op) ==
  IF t = "mt"
  THEN [g EXCEPT !.pure = FALSE, !.run = <<>>, !.clean = TRUE, !.freed = NULL]
  ELSE [g EXCEPT !.pure = @ /\ op = "allocate",
                 !.run = IF g.pure /\ op = "allocate" THEN @ ELSE <<>>,
                 !.clean = FALSE, !.settled = FALSE,
                 !.freed = IF op = "allocate" THEN @ ELSE NULL]

\* The application calls rtsafe_memory_pool_deallocate(pool, data).
GhDeallocate(g, data) == [GhCall(g, "rt", "deallocate") EXCEPT !.freed = data]

\* A pass of rtsafe_memory_pool_sleepy called for op on thread t returns.
GhPassDone(g, t, op) ==
  IF t = "mt" /\ op \in {"create", "sleepy"}
  THEN [g EXCEPT !.settled = g.clean] ELSE g

\* op returns v to the application.
GhReturn(g, op, v) ==
  IF op = "allocate" /\ g.pure
  THEN IF Len(g.run) <= MaxPrealloc
       THEN [g EXCEPT !.ret = v, !.run = Append(@, v # NULL)]
       ELSE [g EXCEPT !.ret = v, !.run = <<>>, !.pure = FALSE]
  ELSE IF op \in PoolOps THEN [g EXCEPT !.ret = v, !.freed = NULL] ELSE g

\* ------------------------------------------------- rtsafe_memory_pool_sleepy
\* Where the caller of rtsafe_memory_pool_sleepy goes on when it returns:
\* create (lines 94-96) and a plain call return to the application,
\* allocate_sleepy goes on to line 291, rtsafe_memory_init to lines 376 and
\* 356, rtsafe_memory_sleepy to its next pool.
AfterSleepy(t) ==
  CASE th[t].op = "allocate_sleepy" ->
         [th[t] EXCEPT !.pc = "allocate", !.count = 0, !.node_ptr = NULL]
    [] th[t].op = "mem_init" ->
         [th[t] EXCEPT !.pc = "init_loop", !.i = @ + 1, !.size = @ * 2,
                       !.count = 0, !.node_ptr = NULL]
    [] th[t].op = "mem_sleepy" ->
         [th[t] EXCEPT !.pc = "mem_sleepy", !.i = @ + 1,
                       !.count = 0, !.node_ptr = NULL]
    [] OTHER -> Idle

ReadyAfterSleepy(t) == ready \/ th[t].op = "create"

\* Mutant of SleepyEnter: the pass goes on without waiting for the mutex.
SleepyEnter_NoLock(t) ==
  /\ Running
  /\ th[t].pc = "sleepy"
  /\ pool' = [pool EXCEPT ![th[t].pool].mutex =
                IF pool[th[t].pool].enforce_thread_safety THEN t ELSE @]
  /\ th' = [th EXCEPT ![t].pc = "grow", ![t].count = pool[th[t].pool].unused_count2]
  /\ UNCHANGED <<ndebug, faulty, ready, mem, heap, held, gh, assert_failed>>

\* Lines 151-157: take the mutex, read unused_count2, check min < max.
SleepyEnter(t) ==
  /\ Running
  /\ th[t].pc = "sleepy"
  /\ LET p == th[t].pool
         P == pool[p]
     IN IF P.enforce_thread_safety
        THEN /\ P.mutex = "free"
             /\ pool' = [pool EXCEPT ![p].mutex = t]
             /\ th' = [th EXCEPT ![t].pc = "grow", ![t].count = P.unused_count2]
             /\ assert_failed' =
                  IF ~ndebug /\ ~(P.min_preallocated < P.max_preallocated)
                  THEN "L157" ELSE assert_failed
        ELSE /\ th' = [th EXCEPT ![t].pc = "grow"]
             /\ UNCHANGED <<pool, assert_failed>>
  /\ UNCHANGED <<ndebug, faulty, ready, mem, heap, held, gh>>

\* Mutant of SleepyGrow: when malloc fails in thread-safe mode the pass
\* returns from inside the growth loop, past the unlock of line 183.
SleepyGrow_ReturnOnFailure(t) ==
  /\ Running
  /\ th[t].pc = "grow"
  /\ LET p == th[t].pool
         P == pool[p]
     IN IF P.enforce_thread_safety
        THEN IF th[t].count < P.min_preallocated
             THEN \E node_ptr \in MallocResults :
                    IF node_ptr = NULL
                    THEN /\ th' = [th EXCEPT ![t] = AfterSleepy(t)]
                         /\ ready' = ReadyAfterSleepy(t)
                         /\ gh' = GhPassDone(GhMallocFailed(gh, th[t].op), t, th[t].op)
                         /\ UNCHANGED <<pool, heap>>
                    ELSE /\ pool' = [pool EXCEPT ![p].pending = list_add_tail(node_ptr, @)]
                         /\ heap' = HeapAfterMalloc(node_ptr, p)
                         /\ th' = [th EXCEPT ![t].count = @ + 1, ![t].node_ptr = node_ptr]
                         /\ UNCHANGED <<gh, ready>>
             ELSE /\ th' = [th EXCEPT ![t].pc = "trim"]
                  /\ UNCHANGED <<pool, heap, gh, ready>>
        ELSE IF P.unused_count < P.min_preallocated
             THEN \E node_ptr \in MallocResults :
                    IF node_ptr = NULL
                    THEN /\ th' = [th EXCEPT ![t] = AfterSleepy(t)]
                         /\ ready' = ReadyAfterSleepy(t)
                         /\ gh' = GhPassDone(GhMallocFailed(gh, th[t].op), t, th[t].op)
                         /\ UNCHANGED <<pool, heap>>
                    ELSE /\ pool' = [pool EXCEPT ![p].unused = list_add_tail(node_ptr, @),
                                                 ![p].unused_count = @ + 1]
                         /\ heap' = HeapAfterMalloc(node_ptr, p)
                         /\ th' = [th EXCEPT ![t].node_ptr = node_ptr]
                         /\ UNCHANGED <<gh, ready>>
             ELSE /\ th' = [th EXCEPT ![t].pc = "trim"]
                  /\ UNCHANGED <<pool, heap, gh, ready>>
  /\ UNCHANGED <<ndebug, faulty, mem, held, assert_failed>>

\* Lines 159-170 and 187-197: one turn of the growth loop.
SleepyGrow(t) ==
  /\ Running
  /\ th[t].pc = "grow"
  /\ LET p == th[t].pool
         P == pool[p]
     IN IF P.enforce_thread_safety
        THEN IF th[t].count < P.min_preallocated
             THEN \E node_ptr \in MallocResults :
                    IF node_ptr = NULL
                    THEN /\ th' = [th EXCEPT ![t].pc = "trim", ![t].node_ptr = NULL]
                         /\ gh' = GhMallocFailed(gh, th[t].op)
                         /\ UNCHANGED <<pool, heap, ready>>
                    ELSE /\ pool' = [pool EXCEPT ![p].pending = list_add_tail(node_ptr, @)]
                         /\ heap' = HeapAfterMalloc(node_ptr, p)
                         /\ th' = [th EXCEPT ![t].count = @ + 1, ![t].node_ptr = node_ptr]
                         /\ UNCHANGED <<gh, ready>>
             ELSE /\ th' = [th EXCEPT ![t].pc = "trim"]
                  /\ UNCHANGED <<pool, heap, gh, ready>>
        ELSE IF P.unused_count < P.min_preallocated
             THEN \E node_ptr \in MallocResults :
                    IF node_ptr = NULL
                    THEN /\ th' = [th EXCEPT ![t] = AfterSleepy(t)]
                         /\ ready' = ReadyAfterSleepy(t)
                         /\ gh' = GhPassDone(GhMallocFailed(gh, th[t].op), t, th[t].op)
                         /\ UNCHANGED <<pool, heap>>
                    ELSE /\ pool' = [pool EXCEPT ![p].unused = list_add_tail(node_ptr, @),
                                                 ![p].unused_count = @ + 1]
                         /\ heap' = HeapAfterMalloc(node_ptr, p)
                         /\ th' = [th EXCEPT ![t].node_ptr = node_ptr]
                         /\ UNCHANGED <<gh, ready>>
             ELSE /\ th' = [th EXCEPT ![t].pc = "trim"]
                  /\ UNCHANGED <<pool, heap, gh, ready>>
  /\ UNCHANGED <<ndebug, faulty, mem, held, assert_failed>>

\* Lines 172-183 and 199-210: one turn of the trimming loop, or the return.
SleepyTrim(t) ==
  /\ Running
  /\ th[t].pc = "trim"
  /\ LET p == th[t].pool
         P == pool[p]
     IN IF P.enforce_thread_safety
        THEN IF th[t].count > P.max_preallocated /\ ~list_empty(P.pending)
             THEN LET node_ptr == list_first(P.pending)
                  IN /\ pool' = [pool EXCEPT ![p].pending = list_del_first(@)]
                     /\ heap' = HeapAfterFree(node_ptr)
                     /\ th' = [th EXCEPT ![t].count = @ - 1, ![t].node_ptr = node_ptr]
                     /\ UNCHANGED <<ready, gh, assert_failed>>
             ELSE /\ pool' = [pool EXCEPT ![p].mutex = "free"]
                  /\ th' = [th EXCEPT ![t] = AfterSleepy(t)]
                  /\ ready' = ReadyAfterSleepy(t)
                  /\ gh' = GhPassDone(gh, t, th[t].op)
                  /\ UNCHANGED <<heap, assert_failed>>
        ELSE IF P.unused_count > P.max_preallocated
             THEN IF list_empty(P.unused)
                  THEN \* assert(!list_empty(&pool_ptr->unused)); without the
                       \* assertion the list head itself would be unlinked and
                       \* freed, which is undefined
                       /\ assert_failed' = IF ndebug THEN "undefined_L203" ELSE "L201"
                       /\ UNCHANGED <<pool, heap, th, ready, gh>>
                  ELSE LET node_ptr == list_first(P.unused)
                       IN /\ pool' = [pool EXCEPT ![p].unused = list_del_first(@),
                                                  ![p].unused_count = @ - 1]
                          /\ heap' = HeapAfterFree(node_ptr)
                          /\ th' = [th EXCEPT ![t].node_ptr = node_ptr]
                          /\ UNCHANGED <<ready, gh, assert_failed>>
             ELSE /\ th' = [th EXCEPT ![t] = AfterSleepy(t)]
                  /\ ready' = ReadyAfterSleepy(t)
                  /\ gh' = GhPassDone(gh, t, th[t].op)
                  /\ UNCHANGED <<pool, heap, assert_failed>>
  /\ UNCHANGED <<ndebug, faulty, mem, held>>

\* ---------------------------------------- rtsafe_memory_pool_allocate
\* pthread_mutex_trylock(&pool_ptr->mutex) == 0
TryLock(P) == P.mutex = "free"

\* Lines 233-240: move chunks from pending to unused while unused is below
\* the minimum.  node_ptr is the function's one local, the loop reuses it.
RECURSIVE ReplenishLoop(_, _)
ReplenishLoop(P, node_ptr) ==
  IF P.unused_count < P.min_preallocated /\ ~list_empty(P.pending)
  THEN LET n == list_first(P.pending)
       IN ReplenishLoop([P EXCEPT !.pending = list_del_first(@),
                                  !.unused = list_add_tail(n, @),
                                  !.unused_count = @ + 1], n)
  ELSE [pool |-> P, node_ptr |-> node_ptr]

\* The chunk an address lies in: chunk bases are multiples of ChunkSlots.
Base(a) == a - (a % ChunkSlots)

\* Mutant of HeapAfterHeaderWrite: the header names the first pool of the
\* table whatever pool the chunk came from.
HeapAfterHeaderWrite_FirstPool(data_ptr, handle) ==
  [heap EXCEPT ![Base(data_ptr)].hdr = mem.pools[0].pool]

\* Lines 432-441: *data_ptr = memory_ptr->pools[i].pool
HeapAfterHeaderWrite(data_ptr, handle) ==
  [heap EXCEPT ![Base(data_ptr)].hdr = handle]

\* Mutant of ReturnFromAllocate: when the pool has no chunk,
\* rtsafe_memory_allocate goes on to the next larger pool.
ReturnFromAllocate_Fallback(t, v) ==
  LET op == th[t].op
  IN CASE op = "allocate_sleepy" /\ v = NULL ->
            /\ th' = [th EXCEPT ![t].pc = "sleepy", ![t].node_ptr = NULL]
            /\ UNCHANGED <<held, heap, gh>>
       [] op = "mem_allocate" /\ v # NULL ->
            /\ heap' = HeapAfterHeaderWrite(v, th[t].pool)
            /\ held' = held \cup {v + 1}
            /\ gh' = GhReturn(gh, op, v + 1)
            /\ th' = [th EXCEPT ![t] = Idle]
       [] op = "mem_allocate" /\ v = NULL /\ th[t].i + 1 < mem.pools_count ->
            /\ th' = [th EXCEPT ![t].i = @ + 1,
                                ![t].pool = mem.pools[th[t].i + 1].pool]
            /\ UNCHANGED <<held, heap, gh>>
       [] OTHER ->
            /\ held' = IF v = NULL THEN held ELSE held \cup {v}
            /\ gh' = GhReturn(gh, op, v)
            /\ th' = [th EXCEPT ![t] = Idle]
            /\ UNCHANGED heap

\* rtsafe_memory_pool_allocate returns v (line 222 or 247) to its caller:
\* the application, allocate_sleepy (lines 291-295) or
\* rtsafe_memory_allocate (lines 431-441).
ReturnFromAllocate(t, v) ==
  LET op == th[t].op
  IN CASE op = "allocate_sleepy" /\ v = NULL ->
            /\ th' = [th EXCEPT ![t].pc = "sleepy", ![t].node_ptr = NULL]
            /\ UNCHANGED <<held, heap, gh>>
       [] op = "mem_allocate" /\ v # NULL ->
            /\ heap' = HeapAfterHeaderWrite(v, th[t].pool)
            /\ held' = held \cup {v + 1}
            /\ gh' = GhReturn(gh, op, v + 1)
            /\ th' = [th EXCEPT ![t] = Idle]
       [] OTHER ->
            /\ held' = IF v = NULL THEN held ELSE held \cup {v}
            /\ gh' = GhReturn(gh, op, v)
            /\ th' = [th EXCEPT ![t] = Idle]
            /\ UNCHANGED heap

\* Mutant of PoolAllocate: the call takes the pool mutex with
\* pthread_mutex_lock before it looks at the unused list.
PoolAllocate_Blocking(t) ==
  /\ Running
  /\ th[t].pc = "allocate"
  /\ pool[th[t].pool].enforce_thread_safety => pool[th[t].pool].mutex = "free"
  /\ LET p == th[t].pool
         P == pool[p]
     IN IF list_empty(P.unused)
        THEN /\ ReturnFromAllocate(t, NULL)
             /\ UNCHANGED pool
        ELSE /\ pool' = [pool EXCEPT ![p].unused = list_del_first(@),
                                     ![p].unused_count = @ - 1,
                                     ![p].used_count = @ + 1]
             /\ th' = [th EXCEPT ![t].pc = "replenish",
                                 ![t].node_ptr = list_first(P.unused)]
             /\ UNCHANGED <<held, heap, gh>>
  /\ UNCHANGED <<ndebug, faulty, ready, mem, assert_failed>>

\* Lines 220-228: fail on an empty unused list, else unlink its first chunk.
PoolAllocate(t) ==
  /\ Running
  /\ th[t].pc = "allocate"
  /\ LET p == th[t].pool
         P == pool[p]
     IN IF list_empty(P.unused)
        THEN /\ ReturnFromAllocate(t, NULL)
             /\ UNCHANGED pool
        ELSE /\ pool' = [pool EXCEPT ![p].unused = list_del_first(@),
                                     ![p].unused_count = @ - 1,
                                     ![p].used_count = @ + 1]
             /\ th' = [th EXCEPT ![t].pc = "replenish",
                                 ![t].node_ptr = list_first(P.unused)]
             /\ UNCHANGED <<held, heap, gh>>
  /\ UNCHANGED <<ndebug, faulty, ready, mem, assert_failed>>

\* Lines 230-247: the opportunistic refill under the mutex, and the return.
\* The first step tries the lock; holding it, the second runs lines 233-244.
AllocateReplenish(t) ==
  /\ Running
  /\ th[t].pc \in {"replenish", "replenish_locked"}
  /\ LET p == th[t].pool
         P == pool[p]
     IN IF th[t].pc = "replenish"
        THEN IF P.enforce_thread_safety /\ TryLock(P)
             THEN /\ pool' = [pool EXCEPT ![p].mutex = t]
                  /\ th' = [th EXCEPT ![t].pc = "replenish_locked"]
                  /\ UNCHANGED <<held, heap, gh>>
             ELSE /\ ReturnFromAllocate(t, th[t].node_ptr + 1)
                  /\ UNCHANGED pool
        ELSE LET r == ReplenishLoop(P, th[t].node_ptr)
             IN /\ pool' = [pool EXCEPT ![p] =
                              [r.pool EXCEPT !.unused_count2 = r.pool.unused_count,
                                             !.mutex = "free"]]
                /\ ReturnFromAllocate(t, r.node_ptr + 1)
  /\ UNCHANGED <<ndebug, faulty, ready, mem, assert_failed>>

\* -------------------------------------- rtsafe_memory_pool_deallocate
\* Lines 265-274: move chunks from unused to pending while unused is above
\* the maximum.  failed: the assertion of line 267 did not hold.
RECURSIVE SurplusLoop(_)
SurplusLoop(P) ==
  IF P.unused_count > P.max_preallocated
  THEN IF list_empty(P.unused)
       THEN [pool |-> P, failed |-> TRUE]
       ELSE LET n == list_first(P.unused)
            IN SurplusLoop([P EXCEPT !.unused = list_del_first(@),
                                     !.pending = list_add_tail(n, @),
                                     !.unused_count = @ - 1])
  ELSE [pool |-> P, failed |-> FALSE]

\* Mutant of PoolDeallocate: the chunk is given back to the system with
\* free() instead of being linked.
PoolDeallocate_Free(t) ==
  /\ Running
  /\ th[t].pc = "deallocate"
  /\ pool' = [pool EXCEPT ![th[t].pool].used_count = @ - 1]
  /\ heap' = HeapAfterFree(th[t].data - 1)
  /\ th' = [th EXCEPT ![t].pc = "surplus"]
  /\ UNCHANGED <<ndebug, faulty, ready, mem, held, assert_failed, gh>>

\* Lines 258-260: link the chunk at the tail of unused.
PoolDeallocate(t) ==
  /\ Running
  /\ th[t].pc = "deallocate"
  /\ LET p == th[t].pool
     IN pool' = [pool EXCEPT ![p].unused = list_add_tail(th[t].data - 1, @),
                             ![p].used_count = @ - 1,
                             ![p].unused_count = @ + 1]
  /\ th' = [th EXCEPT ![t].pc = "surplus"]
  /\ UNCHANGED <<ndebug, faulty, ready, mem, heap, held, assert_failed, gh>>

\* Lines 262-280: the opportunistic trimming under the mutex, and the return.
\* The first step tries the lock; holding it, the second runs lines 265-278.
DeallocateSurplus(t) ==
  /\ Running
  /\ th[t].pc \in {"surplus", "surplus_locked"}
  /\ LET p == th[t].pool
         P == pool[p]
     IN IF th[t].pc = "surplus"
        THEN IF P.enforce_thread_safety /\ TryLock(P)
             THEN /\ pool' = [pool EXCEPT ![p].mutex = t]
                  /\ th' = [th EXCEPT ![t].pc = "surplus_locked"]
                  /\ UNCHANGED assert_failed
             ELSE /\ th' = [th EXCEPT ![t] = Idle]
                  /\ UNCHANGED <<pool, assert_failed>>
        ELSE LET r == SurplusLoop(P)
             IN IF r.failed
                THEN /\ assert_failed' = IF ndebug THEN "undefined_L269" ELSE "L267"
                     /\ UNCHANGED <<pool, th>>
                ELSE /\ pool' = [pool EXCEPT ![p] =
                                   [r.pool EXCEPT !.unused_count2 = r.pool.unused_count,
                                                  !.mutex = "free"]]
                     /\ th' = [th EXCEPT ![t] = Idle]
                     /\ UNCHANGED assert_failed
  /\ UNCHANGED <<ndebug, faulty, ready, mem, heap, held, gh>>

\* ----------------------------------------- rtsafe_memory_pool_destroy
\* Mutant of DestroyUnused: the list is emptied but its chunks are not freed.
DestroyUnused_NoFree(P, freed) ==
  [pool |-> [P EXCEPT !.unused = <<>>, !.unused_count = 0],
   freed |-> freed, failed |-> FALSE]

\* Lines 111-121: unlink and free the chunks of the unused list while
\* unused_count is not 0.  freed: the chunks freed so far; failed: the
\* assertion of line 113 did not hold.
RECURSIVE DestroyUnused(_, _)
DestroyUnused(P, freed) ==
  IF P.unused_count # 0
  THEN IF list_empty(P.unused)
       THEN [pool |-> P, freed |-> freed, failed |-> TRUE]
       ELSE DestroyUnused([P EXCEPT !.unused = list_del_first(@),
                                    !.unused_count = @ - 1],
                          freed \cup {list_first(P.unused)})
  ELSE [pool |-> P, freed |-> freed, failed |-> FALSE]

\* Mutant of DestroyPending: the pending list is forgotten.
DestroyPending_Forgotten(P) == {}

\* Lines 125-134: the chunks of the pending list, all unlinked and freed.
DestroyPending(P) ==
  IF P.enforce_thread_safety THEN Members(P.pending) ELSE {}

\* Where the caller of rtsafe_memory_pool_destroy goes on when it returns:
\* the application, or the loop of lines 367-371 in rtsafe_memory_init.
AfterDestroy(t) ==
  IF th[t].op = "mem_init"
  THEN [th[t] EXCEPT !.pc = "init_fail"]
  ELSE Idle

\* rtsafe_memory_pool_destroy, lines 109-140, called when nothing else uses
\* the pool.  An assertion that fails aborts the program; compiled out, the
\* call goes on, and unlinking the head of an empty list (line 117) or
\* destroying a locked mutex (line 136) is undefined.
PoolDestroy(t) ==
  /\ Running
  /\ th[t].pc = "destroy"
  /\ LET p == th[t].pool
         P == pool[p]
         r == DestroyUnused(P, {})
     IN IF ~ndebug /\ P.used_count # 0
        THEN /\ assert_failed' = "L109"
             /\ UNCHANGED <<pool, heap, th, ready>>
        ELSE IF r.failed
        THEN /\ assert_failed' = IF ndebug THEN "undefined_L117" ELSE "L113"
             /\ UNCHANGED <<pool, heap, th, ready>>
        ELSE IF ~ndebug /\ ~list_empty(r.pool.unused)
        THEN /\ assert_failed' = "L123"
             /\ UNCHANGED <<pool, heap, th, ready>>
        ELSE IF P.enforce_thread_safety /\ P.mutex # "free"
        THEN /\ assert_failed' = IF ndebug THEN "undefined_L136" ELSE "L137"
             /\ UNCHANGED <<pool, heap, th, ready>>
        ELSE /\ heap' = [x \in DOMAIN heap \ (r.freed \cup DestroyPending(P)) |-> heap[x]]
             /\ pool' = [q \in DOMAIN pool \ {p} |-> pool[q]]
             /\ th' = [th EXCEPT ![t] = AfterDestroy(t)]
             /\ ready' = (ready /\ th[t].op # "destroy")
             /\ UNCHANGED assert_failed
  /\ UNCHANGED <<ndebug, faulty, mem, held, gh>>

\* ------------------------------------------------ the application: a pool
\* The application calls rtsafe_memory_pool_sleepy(pool).
CallSleepy ==
  /\ MayCall("mt")
  /\ th' = [th EXCEPT !["mt"] = [Idle EXCEPT !.op = "sleepy", !.pc = "sleepy"]]
  /\ gh' = GhCall(gh, "mt", "sleepy")
  /\ UNCHANGED <<ndebug, faulty, ready, mem, pool, heap, held, assert_failed>>

\* The application calls rtsafe_memory_pool_allocate(pool).
CallAllocate ==
  /\ MayCall("rt")
  /\ th' = [th EXCEPT !["rt"] = [Idle EXCEPT !.op = "allocate", !.pc = "allocate"]]
  /\ gh' = GhCall(gh, "rt", "allocate")
  /\ UNCHANGED <<ndebug, faulty, ready, mem, pool, heap, held, assert_failed>>

\* The application calls rtsafe_memory_pool_deallocate(pool, data) with a
\* pointer it got from rtsafe_memory_pool_allocate and has not yet returned.
CallDeallocate ==
  /\ MayCall("rt")
  /\ \E data \in held :
       /\ held' = held \ {data}
       /\ th' = [th EXCEPT !["rt"] =
                   [Idle EXCEPT !.op = "deallocate", !.pc = "deallocate", !.data = data]]
  /\ \E data \in held \ held' : gh' = GhDeallocate(gh, data)
  /\ UNCHANGED <<ndebug, faulty, ready, mem, pool, heap, assert_failed>>

\* The application calls rtsafe_memory_pool_allocate_sleepy(pool), lines
\* 288-290: the loop starts with a maintenance pass.
CallAllocateSleepy ==
  /\ MayCall("rt")
  /\ th' = [th EXCEPT !["rt"] =
              [Idle EXCEPT !.op = "allocate_sleepy", !.pc = "sleepy"]]
  /\ gh' = GhCall(gh, "rt", "allocate_sleepy")
  /\ UNCHANGED <<ndebug, faulty, ready, mem, pool, heap, held, assert_failed>>

\* rtsafe_memory_pool_create is running: lines 62-91 are done, the call of
\* rtsafe_memory_pool_sleepy on line 93 is next.
Init ==
  /\ ndebug \in BOOLEAN
  /\ faulty \in BOOLEAN
  /\ ready = FALSE
  /\ mem = NoMem
  /\ \E min_preallocated \in 0..MaxPrealloc :
       \E max_preallocated \in min_preallocated..MaxPrealloc :
         \E enforce_thread_safety \in BOOLEAN :
           pool = (0 :> NewPool(DATA_MIN - DATA_SUB, min_preallocated,
                                max_preallocated, enforce_thread_safety))
  /\ th = [t \in Threads |->
             IF t = "mt" THEN [Idle EXCEPT !.op = "create", !.pc = "sleepy"] ELSE Idle]
  /\ heap = <<>>
  /\ held = {}
  /\ assert_failed = "none"
  /\ gh = GhInit

Next ==
  \/ CallSleepy
  \/ CallAllocate
  \/ CallDeallocate
  \/ CallAllocateSleepy
  \/ \E t \in Threads : SleepyEnter(t)
  \/ \E t \in Threads : SleepyGrow(t)
  \/ \E t \in Threads : SleepyTrim(t)
  \/ \E t \in Threads : PoolAllocate(t)
  \/ \E t \in Threads : AllocateReplenish(t)
  \/ \E t \in Threads : PoolDeallocate(t)
  \/ \E t \in Threads : DeallocateSurplus(t)

Spec == Init /\ [][Next]_vars

\* The application calls rtsafe_memory_pool_destroy(pool) when no call on
\* the pool is running, and uses the handle no more.  Nothing in the code
\* keeps it from doing so while it still owns chunks (line 109 asserts it).
CallDestroy ==
  /\ Running
  /\ ready
  /\ \A u \in Threads : th[u].op = "idle"
  /\ th' = [th EXCEPT !["mt"] = [Idle EXCEPT !.op = "destroy", !.pc = "destroy"]]
  /\ ready' = FALSE
  /\ UNCHANGED <<ndebug, faulty, mem, pool, heap, held, assert_failed, gh>>

\* The life of a pool to its end: the calls of Next, and the teardown.
DestroyNext ==
  \/ Next
  \/ CallDestroy
  \/ \E t \in Threads : PoolDestroy(t)

DestroySpec == Init /\ [][DestroyNext]_vars

\* ------------------------------------------------- the tiered allocator
\* The max_size values and the <<prealloc_min, prealloc_max>> pairs
\* rtsafe_memory_init is called with, and the sizes the application asks
\* rtsafe_memory_allocate for.
TieredPrealloc == {<<0, 1>>, <<1, 1>>, <<1, 2>>}
MaxSizes == {900, 2048}
RequestSizes == {916, 1500, 2048}

\* x << n.  size_t is SizeBits wide; the sizes used here stay far below
\* 2^SizeBits, so no bit is shifted out.
Shl(x, n) == x * 2^n

\* Lines 334-346: the number of pools for max_size, counting up from
\* pools_count; 0 when it would pass the width of size_t (line 341).
RECURSIVE CountPools(_, _)
CountPools(max_size, pools_count) ==
  IF Shl(DATA_MIN, pools_count) < max_size + DATA_SUB
  THEN IF pools_count + 1 > SizeBits THEN 0
       ELSE CountPools(max_size, pools_count + 1)
  ELSE pools_count

\* Mutant of FirstFit: the comparison of line 428 is strict.
RECURSIVE FirstFit_Strict(_, _)
FirstFit_Strict(size, i) ==
  IF i < mem.pools_count
  THEN IF size < mem.pools[i].size THEN i ELSE FirstFit_Strict(size, i + 1)
  ELSE mem.pools_count

\* Mutant of FirstFit: a request no pool holds is given to the largest pool.
RECURSIVE FirstFit_Largest(_, _)
FirstFit_Largest(size, i) ==
  IF i < mem.pools_count - 1
  THEN IF size <= mem.pools[i].size THEN i ELSE FirstFit_Largest(size, i + 1)
  ELSE i

\* Lines 426-443: the loop's index when it stops at the first pool from i on
\* whose size holds size bytes, pools_count when there is none.
RECURSIVE FirstFit(_, _)
FirstFit(size, i) ==
  IF i < mem.pools_count
  THEN IF size <= mem.pools[i].size THEN i ELSE FirstFit(size, i + 1)
  ELSE mem.pools_count

\* What malloc(sizeof(struct rtsafe_memory_pool)) on line 64 and
\* pthread_mutex_init on line 82 may come to: the pool is set up, or
\* rtsafe_memory_pool_create returns false (lines 67 and 86).
PoolCreateResults == IF faulty THEN BOOLEAN ELSE {TRUE}

\* rtsafe_memory_init, lines 356-381: the loop test, and either the creation
\* of pool i (lines 358-365 and 62-91) up to its call of sleepy on line 93,
\* its failure, or the return of the handle.  The handle of a pool that
\* failed to be created is never written: -1.
MemInitCreate ==
  /\ Running
  /\ th["mt"].pc = "init_loop"
  /\ LET i == th["mt"].i
         size == th["mt"].size
     IN IF i < mem.pools_count
        THEN \E created \in PoolCreateResults :
               IF created
               THEN /\ mem' = [mem EXCEPT !.pools =
                                 @ @@ (i :> [size |-> size - DATA_SUB, pool |-> i])]
                    /\ pool' = pool @@ (i :> NewPool(size - DATA_SUB, mem.prealloc_min,
                                                     mem.prealloc_max,
                                                     mem.enforce_thread_safety))
                    /\ th' = [th EXCEPT !["mt"].pc = "sleepy", !["mt"].pool = i]
                    /\ UNCHANGED ready
               ELSE /\ mem' = [mem EXCEPT !.pools =
                                 @ @@ (i :> [size |-> size - DATA_SUB, pool |-> -1])]
                    /\ th' = [th EXCEPT !["mt"].pc = "init_fail"]
                    /\ UNCHANGED <<pool, ready>>
        ELSE /\ ready' = TRUE
             /\ th' = [th EXCEPT !["mt"] = Idle]
             /\ UNCHANGED <<mem, pool>>
  /\ UNCHANGED <<ndebug, faulty, heap, held, assert_failed, gh>>

\* Lines 367-390: the pools created so far are destroyed from the last to
\* the first, then the pool table and the allocator are freed and false is
\* returned; *handle_ptr is left alone.
MemInitFail ==
  /\ Running
  /\ th["mt"].pc = "init_fail"
  /\ LET i == th["mt"].i
     IN IF i > 0
        THEN /\ th' = [th EXCEPT !["mt"].i = i - 1, !["mt"].pc = "destroy",
                                 !["mt"].pool = mem.pools[i - 1].pool]
             /\ UNCHANGED mem
        ELSE /\ mem' = NoMem
             /\ th' = [th EXCEPT !["mt"] = Idle]
  /\ UNCHANGED <<ndebug, faulty, ready, pool, heap, held, assert_failed, gh>>

\* The application calls rtsafe_memory_sleepy(handle).
MemSleepyCall ==
  /\ MayCall("mt")
  /\ th' = [th EXCEPT !["mt"] = [Idle EXCEPT !.op = "mem_sleepy", !.pc = "mem_sleepy"]]
  /\ UNCHANGED <<ndebug, faulty, ready, mem, pool, heap, held, assert_failed, gh>>

\* Lines 456-459: the loop test and the call of sleepy on pool i, or the return.
MemSleepyLoop ==
  /\ Running
  /\ th["mt"].pc = "mem_sleepy"
  /\ LET i == th["mt"].i
     IN IF i < mem.pools_count
        THEN th' = [th EXCEPT !["mt"].pc = "sleepy", !["mt"].pool = mem.pools[i].pool]
        ELSE th' = [th EXCEPT !["mt"] = Idle]
  /\ UNCHANGED <<ndebug, faulty, ready, mem, pool, heap, held, assert_failed, gh>>

\* The application calls rtsafe_memory_allocate(handle, size), lines 424-431:
\* the header size is added, the pool table is scanned, and either the pool
\* found is asked for a chunk or the loop ends at line 445.
MemAllocateCall ==
  /\ MayCall("rt")
  /\ \E request \in RequestSizes :
       LET size == request + HandleSize
           i == FirstFit(size, 0)
       IN IF i < mem.pools_count
          THEN th' = [th EXCEPT !["rt"] =
                        [Idle EXCEPT !.op = "mem_allocate", !.pc = "allocate",
                                     !.pool = mem.pools[i].pool, !.i = i,
                                     !.size = size]]
          ELSE th' = [th EXCEPT !["rt"] =
                        [Idle EXCEPT !.op = "mem_allocate", !.pc = "too_big",
                                     !.i = i, !.size = size]]
  /\ UNCHANGED <<ndebug, faulty, ready, mem, pool, heap, held, assert_failed, gh>>

\* Lines 445-447: no pool is large enough, NULL is returned.
MemAllocateTooBig ==
  /\ Running
  /\ th["rt"].pc = "too_big"
  /\ ReturnFromAllocate("rt", NULL)
  /\ UNCHANGED <<ndebug, faulty, ready, mem, pool, assert_failed>>

\* The application calls rtsafe_memory_deallocate(data) with a pointer it got
\* from rtsafe_memory_allocate and has not yet returned, lines 467-469: the
\* pool handle is read from the slot before data, and that slot's address is
\* passed to the pool's deallocate.  Reading a slot that was never written
\* is undefined.
MemDeallocateCall ==
  /\ MayCall("rt")
  /\ \E data \in held :
       LET handle == heap[Base(data - 1)].hdr
       IN /\ held' = held \ {data}
          /\ IF handle \in DOMAIN pool
             THEN /\ th' = [th EXCEPT !["rt"] =
                              [Idle EXCEPT !.op = "mem_deallocate", !.pc = "deallocate",
                                           !.pool = handle, !.data = data - 1]]
                  /\ UNCHANGED assert_failed
             ELSE /\ assert_failed' = "undefined_L468"
                  /\ UNCHANGED th
  /\ UNCHANGED <<ndebug, faulty, ready, mem, pool, heap, gh>>

\* rtsafe_memory_init is running: lines 328-354 are done, the loop of line
\* 356 is next.
TieredInit ==
  /\ ndebug \in BOOLEAN
  /\ faulty \in BOOLEAN
  /\ ready = FALSE
  /\ \E max_size \in MaxSizes :
       \E prealloc \in TieredPrealloc :
         \E enforce_thread_safety \in BOOLEAN :
           mem = [max_size |-> max_size,
                  pools_count |-> CountPools(max_size, 1),
                  pools |-> <<>>,
                  prealloc_min |-> prealloc[1],
                  prealloc_max |-> prealloc[2],
                  enforce_thread_safety |-> enforce_thread_safety]
  /\ pool = <<>>
  /\ th = [t \in Threads |->
             IF t = "mt"
             THEN [Idle EXCEPT !.op = "mem_init", !.pc = "init_loop", !.size = DATA_MIN]
             ELSE Idle]
  /\ heap = <<>>
  /\ held = {}
  /\ assert_failed = "none"
  /\ gh = GhInit

TieredNext ==
  \/ MemInitCreate
  \/ MemInitFail
  \/ MemSleepyCall
  \/ MemSleepyLoop
  \/ MemAllocateCall
  \/ MemAllocateTooBig
  \/ MemDeallocateCall
  \/ \E t \in Threads : SleepyEnter(t)
  \/ \E t \in Threads : SleepyGrow(t)
  \/ \E t \in Threads : SleepyTrim(t)
  \/ \E t \in Threads : PoolAllocate(t)
  \/ \E t \in Threads : AllocateReplenish(t)
  \/ \E t \in Threads : PoolDeallocate(t)
  \/ \E t \in Threads : DeallocateSurplus(t)
  \/ \E t \in Threads : PoolDestroy(t)

TieredSpec == TieredInit /\ [][TieredNext]_vars

\* The steps of the call running on thread t.
ThreadStep(t) ==
  \/ SleepyEnter(t)
  \/ SleepyGrow(t)
  \/ SleepyTrim(t)
  \/ PoolAllocate(t)
  \/ AllocateReplenish(t)
  \/ PoolDeallocate(t)
  \/ DeallocateSurplus(t)

\* Both threads keep running, a thread that finds the mutex free again and
\* again gets it in the end, and malloc fails only when the heap is full.
LiveInit == Init /\ ~faulty
LiveSpec ==
  /\ LiveInit
  /\ [][Next]_vars
  /\ SF_vars(ThreadStep("mt"))
  /\ SF_vars(ThreadStep("rt"))

\* ------------------------------------------------------------ properties
AllIdle == \A t \in Threads : th[t].op = "idle"

\* The places <<pool, position>> where chunk a is linked in a list.
UnusedOcc(a) ==
  Cardinality(UNION {{<<p, k>> : k \in {j \in DOMAIN pool[p].unused :
                                          pool[p].unused[j] = a}} : p \in DOMAIN pool})
PendingOcc(a) ==
  Cardinality(UNION {{<<p, k>> : k \in {j \in DOMAIN pool[p].pending :
                                          pool[p].pending[j] = a}} : p \in DOMAIN pool})
\* Pointers into chunk a that the application owns.
HeldOcc(a) == Cardinality({d \in held : Base(d) = a})
\* Chunk a is between the list and the application inside a running call:
\* unlinked by allocate and not yet returned, or passed to deallocate and
\* not yet linked.
TransitOcc(a) ==
  Cardinality({t \in Threads :
     \/ th[t].pc \in {"replenish", "replenish_locked"} /\ th[t].node_ptr = a
     \/ th[t].pc = "deallocate" /\ th[t].data - 1 = a})

ListedChunks ==
  UNION {Members(pool[p].unused) \cup Members(pool[p].pending) : p \in DOMAIN pool}

\* C1: every chunk that exists is in exactly one place: on the unused list,
\* on the pending list, or in use by the application (a pointer the
\* application owns, or a chunk on its way inside a running allocate or
\* deallocate call); no list links a chunk that does not exist, and a pointer
\* returned by allocate lies in a chunk that is on neither list.
C1_ChunkInOnePlace ==
  /\ \A a \in DOMAIN heap :
       UnusedOcc(a) + PendingOcc(a) + HeldOcc(a) + TransitOcc(a) = 1
  /\ ListedChunks \subseteq DOMAIN heap
  /\ \A d \in held : Base(d) \in DOMAIN heap /\ Base(d) \notin ListedChunks

\* A successful allocate has returned a pointer while other chunks are listed.
C1_Witness ==
  /\ th["rt"].op = "idle"
  /\ gh.ret \in held
  /\ ~list_empty(pool[0].unused)
  /\ Cardinality(held) >= 2

\* The chunks malloc'ed for pool p and not freed: the heap changes only where
\* maintenance calls malloc and free, so their number is the number of
\* successful mallocs minus the number of frees.
ChunksOf(p) == {a \in DOMAIN heap : heap[a].owner = p}

\* C2: conservation.  When no call is in progress, used_count + unused_count
\* + the length of the pending list (thread-safe pools) is the number of
\* chunks malloc'ed by maintenance and not freed by it.
C2_Conservation ==
  AllIdle =>
    \A p \in DOMAIN pool :
      pool[p].used_count + pool[p].unused_count
        + (IF pool[p].enforce_thread_safety THEN Len(pool[p].pending) ELSE 0)
      = Cardinality(ChunksOf(p))

\* Chunks are in use and on the unused list, and maintenance has freed one.
C2_Witness ==
  /\ AllIdle
  /\ ready
  /\ pool[0].used_count >= 2
  /\ pool[0].unused_count >= 1
  /\ Cardinality(DOMAIN heap) < MaxLive
  /\ gh.settled

\* The next step of the allocate or deallocate call running on "rt".
RtStep ==
  \/ PoolAllocate("rt")
  \/ AllocateReplenish("rt")
  \/ PoolDeallocate("rt")
  \/ DeallocateSurplus("rt")

RtInPoolCall ==
  /\ Running
  /\ th["rt"].op \in {"allocate", "deallocate"}
  /\ pool[th["rt"].pool].enforce_thread_safety

\* The step "rt" takes finds the mutex taken: its trylock fails.
RtTrylockFails ==
  /\ RtInPoolCall
  /\ th["rt"].pc \in {"replenish", "surplus"}
  /\ ~TryLock(pool[th["rt"].pool])
  /\ th'["rt"] # th["rt"]

\* C3: in thread-safe mode an allocate or deallocate call never waits for the
\* mutex: whatever the maintenance thread does, and while it holds the mutex,
\* the call's next step is enabled; a step whose trylock fails ends the call
\* (the chunk was unlinked or linked and the counts updated by the step
\* before) and leaves the pending list and unused_count2 as they were.
C3_RtNeverWaits ==
  /\ [](RtInPoolCall => ENABLED RtStep)
  /\ [][RtTrylockFails =>
          /\ th'["rt"].op = "idle"
          /\ \A p \in DOMAIN pool :
               /\ pool[p]'.pending = pool[p].pending
               /\ pool[p]'.unused_count2 = pool[p].unused_count2
               /\ pool[p]'.unused = pool[p].unused
               /\ pool[p]'.used_count = pool[p].used_count
               /\ pool[p]'.unused_count = pool[p].unused_count]_vars

\* An allocate call is running while the maintenance thread holds the mutex.
C3_Witness ==
  /\ RtInPoolCall
  /\ th["rt"].pc = "allocate"
  /\ pool[0].mutex = "mt"
  /\ ~list_empty(pool[0].pending)

\* C4: exhaustion boundary.  A pool created with min_preallocated =
\* max_preallocated = N, all mallocs of the construction succeeding: of the
\* allocate calls that follow with nothing else in between, the first N
\* return a chunk and the next returns NULL, and used_count is N afterwards.
C4_Exhaustion ==
  LET P == pool[0]
      N == P.max_preallocated
  IN (P.min_preallocated = N /\ ready /\ gh.pure /\ ~gh.malloc_failed) =>
       /\ \A k \in DOMAIN gh.run : gh.run[k] = (k <= N)
       /\ (th["rt"].op = "idle" /\ Len(gh.run) >= N) => P.used_count = N

\* The same, of pools without thread safety.
C4_ExhaustionUnlocked ==
  ~pool[0].enforce_thread_safety => C4_Exhaustion

\* C5: with min_preallocated <= max_preallocated, construction and every
\* later maintenance pass run without an assertion failing.
C5_NoAssertionFails ==
  pool[0].min_preallocated <= pool[0].max_preallocated => assert_failed = "none"

\* Chunks ready to be handed out: the unused list, and the pending list of
\* a thread-safe pool.
Available(P) ==
  P.unused_count + (IF P.enforce_thread_safety THEN Len(P.pending) ELSE 0)

\* C6: idempotence of maintenance.  Once a maintenance pass with no malloc
\* failure has completed, and as long as no allocate or deallocate call is
\* made, the number of available chunks is within [min_preallocated,
\* max_preallocated] and no further pass changes a list, a count or the set
\* of chunks.
C6_SleepyIdempotent ==
  [][/\ gh.settled' =>
          /\ pool[0]'.min_preallocated <= Available(pool[0]')
          /\ Available(pool[0]') <= pool[0]'.max_preallocated
     /\ gh.settled =>
          /\ pool[0]'.unused = pool[0].unused
          /\ pool[0]'.pending = pool[0].pending
          /\ pool[0]'.unused_count = pool[0].unused_count
          /\ pool[0]'.used_count = pool[0].used_count
          /\ pool[0]'.unused_count2 = pool[0].unused_count2
          /\ heap' = heap]_vars

\* The same, of pools without thread safety.
C6_SleepyIdempotentUnlocked ==
  [][~pool[0].enforce_thread_safety =>
     /\ gh.settled' =>
          /\ pool[0]'.min_preallocated <= Available(pool[0]')
          /\ Available(pool[0]') <= pool[0]'.max_preallocated
     /\ gh.settled =>
          /\ pool[0]'.unused = pool[0].unused
          /\ pool[0]'.unused_count = pool[0].unused_count
          /\ pool[0]'.used_count = pool[0].used_count
          /\ heap' = heap]_vars

\* allocate_sleepy is running on a pool with min_preallocated >= 1 and the
\* system has memory for a chunk wherever the pool has none to hand out.
AllocateSleepyCalled ==
  /\ th["rt"].op = "allocate_sleepy"
  /\ pool[0].min_preallocated >= 1
  /\ pool[0].unused_count >= 1 \/ FreeAddrs # {}

AllocateSleepyReturned ==
  /\ th["rt"].op = "idle"
  /\ gh.ret \in held

\* C7: rtsafe_memory_pool_allocate_sleepy terminates: called on a pool with
\* min_preallocated >= 1 while the system can allocate, it eventually
\* returns a chunk.
C7_AllocateSleepyReturns == AllocateSleepyCalled ~> AllocateSleepyReturned

\* The same, of pools without thread safety.
C7_AllocateSleepyReturnsUnlocked ==
  (AllocateSleepyCalled /\ ~pool[0].enforce_thread_safety) ~> AllocateSleepyReturned

\* A thread-safe pool's unused list is never fed: maintenance links new
\* chunks to pending only, and allocate moves them over only after it has
\* already found a chunk on unused.
TsUnusedStaysEmpty ==
  \A p \in DOMAIN pool :
    pool[p].enforce_thread_safety =>
      /\ list_empty(pool[p].unused)
      /\ pool[p].unused_count = 0
      /\ pool[p].unused_count2 = 0
      /\ pool[p].used_count = 0

\* ------------------------------------------------- the tiered allocator
PoolIndexes == 0..(mem.pools_count - 1)
TieredReady == ready /\ mem.pools_count > 0

\* C8: once rtsafe_memory_init has succeeded, the largest pool holds a
\* request of max_size bytes with its header, so that request finds a pool
\* in the table instead of being rejected as too big.
C8_MaxSizeCovered ==
  TieredReady =>
    /\ mem.pools[mem.pools_count - 1].size >= mem.max_size + HandleSize
    /\ \E i \in PoolIndexes : mem.max_size + HandleSize <= mem.pools[i].size

\* The pool a request of size bytes, header included, belongs to: the one
\* with the lowest index whose chunks hold it.
LowestFitting(size) ==
  {i \in PoolIndexes :
     /\ size <= mem.pools[i].size
     /\ \A j \in PoolIndexes : j < i => size > mem.pools[j].size}

C9_Table ==
  /\ \A i \in DOMAIN mem.pools :
       /\ mem.pools[i].size = Shl(1024, i) - 100
       /\ mem.pools[i].pool \in DOMAIN pool =>
            pool[mem.pools[i].pool].data_size = mem.pools[i].size
       /\ \A j \in DOMAIN mem.pools : i < j => mem.pools[i].size < mem.pools[j].size
  /\ TieredReady => DOMAIN mem.pools = PoolIndexes

C9_Delegated ==
  th["rt"].op = "mem_allocate" =>
    /\ th["rt"].size - HandleSize \in RequestSizes
    /\ IF th["rt"].pc = "too_big"
       THEN LowestFitting(th["rt"].size) = {}
       ELSE /\ LowestFitting(th["rt"].size) = {th["rt"].i}
            /\ th["rt"].pool = mem.pools[th["rt"].i].pool

\* A step of the allocate call on "rt" leaves every pool but the one of the
\* lowest fitting index as it was, and a chunk it hands out is one of that
\* pool, with that pool written in its header.
C9_OnlyThatPool ==
  (th'["rt"] # th["rt"] /\ th["rt"].op = "mem_allocate") =>
    \A i \in LowestFitting(th["rt"].size) :
      /\ \A q \in DOMAIN pool : q # mem.pools[i].pool => pool'[q] = pool[q]
      /\ \A d \in held' \ held :
           /\ heap[Base(d)].owner = mem.pools[i].pool
           /\ heap'[Base(d)].hdr = mem.pools[i].pool

\* C9: the pool table has the strictly increasing sizes (1024 << i) - 100,
\* and rtsafe_memory_allocate(size) asks the pool of the lowest index i with
\* size + sizeof(pool handle) <= pools[i].size for the chunk and touches no
\* other pool.
C9_TieredRouting ==
  /\ [](C9_Table /\ C9_Delegated)
  /\ [][C9_OnlyThatPool]_vars

\* Both pools of a two-pool table have handed out a chunk that is still out.
C9_Witness ==
  /\ TieredReady /\ AllIdle /\ mem.pools_count > 1
  /\ \E d \in held : heap[Base(d)].hdr = mem.pools[0].pool
  /\ \E d \in held : heap[Base(d)].hdr = mem.pools[1].pool

\* The pool a chunk was malloc'ed for is the pool whose lists hold it, and
\* the header of a chunk that is out names that pool.
C10_ChunksStayHome ==
  /\ \A q \in DOMAIN pool :
       \A a \in Members(pool[q].unused) \cup Members(pool[q].pending) :
         heap[a].owner = q
  /\ \A d \in held : heap[Base(d)].hdr = heap[Base(d)].owner
  /\ \A d, e \in held : d # e => Base(d) # Base(e)

\* An allocate call that returns a chunk returns a pointer that is not out
\* already.
C10_FreshPointer ==
  (/\ th["rt"].op = "mem_allocate"
   /\ th["rt"].pc \in {"replenish", "replenish_locked"}
   /\ th'["rt"].op = "idle") =>
    Cardinality(held') = Cardinality(held) + 1

\* The steps of rtsafe_memory_deallocate(p) on "rt", p a pointer into a
\* chunk of pool k: linking the chunk puts it on the unused list of pool k
\* and takes one off its used_count; the return leaves the chunk on a list
\* of pool k; no step changes another pool.
C10_BackToItsPool ==
  (th'["rt"] # th["rt"] /\ th["rt"].op = "mem_deallocate") =>
    LET chunk == Base(th["rt"].data)
        k == heap[chunk].owner
    IN /\ \A q \in DOMAIN pool : q # k => pool'[q] = pool[q]
       /\ th["rt"].pc = "deallocate" =>
            /\ pool'[k].unused = Append(pool[k].unused, chunk)
            /\ pool'[k].used_count = pool[k].used_count - 1
       /\ th'["rt"].op = "idle" =>
            chunk \in Members(pool'[k].unused) \cup Members(pool'[k].pending)

\* C10: rtsafe_memory_deallocate(p), p returned by rtsafe_memory_allocate
\* from pool k, gives the chunk back to pool k alone (its used_count goes
\* down by one, the chunk is on its lists again, every other pool is left as
\* it was), and the pointers that are out are pairwise distinct.
C10_DeallocateRouting ==
  /\ []C10_ChunksStayHome
  /\ [][C10_FreshPointer /\ C10_BackToItsPool]_vars

\* A chunk of the second pool went out and came back to it while a chunk of
\* the first pool is out.
C10_Witness ==
  /\ TieredReady /\ AllIdle /\ mem.pools_count > 1
  /\ \E d \in held : heap[Base(d)].hdr = mem.pools[0].pool
  /\ \E a \in Members(pool[mem.pools[1].pool].unused) :
       heap[a].hdr = mem.pools[1].pool

\* The request of the rtsafe_memory_allocate call running on "rt", header
\* included, is larger than the chunks of every pool.
Oversized ==
  /\ th["rt"].op = "mem_allocate"
  /\ \A i \in PoolIndexes : th["rt"].size > mem.pools[i].size

\* C11: rtsafe_memory_allocate(size) with size + sizeof(pool handle) larger
\* than every pool's chunk size is given to no pool and returns NULL: the
\* pointers the application owns, every pool's lists and counts, and the
\* heap are as they were before the call.
C11_OversizedRejected ==
  /\ [](th["rt"].op = "mem_allocate" => (Oversized <=> th["rt"].pc = "too_big"))
  /\ [][(th'["rt"] # th["rt"] /\ "too_big" \in {th["rt"].pc, th'["rt"].pc}) =>
          /\ pool' = pool /\ heap' = heap /\ held' = held
          /\ th["rt"].pc = "too_big" => th'["rt"] = Idle]_vars

\* An oversized request is being rejected while the pools have chunks on
\* their unused lists and the application owns one.
C11_Witness ==
  /\ TieredReady /\ Oversized
  /\ held # {}
  /\ \A p \in DOMAIN pool : ~list_empty(pool[p].unused)

\* C12: round trip.  rtsafe_memory_pool_deallocate(p) immediately followed
\* by rtsafe_memory_pool_allocate returns p again, however many chunks were
\* on the unused list when p was given back.
C12_RoundTrip ==
  [][(/\ th["rt"].op = "allocate"
      /\ th'["rt"].op = "idle"
      /\ gh.freed # NULL) => gh'.ret = gh.freed]_vars

\* The same, of a pool whose unused list was empty when p was given back:
\* the list is empty again when the allocate call has taken its chunk.
C12_RoundTripOfEmpty ==
  [][(/\ th["rt"].op = "allocate"
      /\ th'["rt"].op = "idle"
      /\ gh.freed # NULL
      /\ ~pool[0].enforce_thread_safety
      /\ list_empty(pool[0].unused)) => gh'.ret = gh.freed]_vars

\* The calls that may be made from the realtime thread.
FastOps == {"allocate", "deallocate", "mem_allocate", "mem_deallocate"}

\* C13: no step of rtsafe_memory_pool_allocate, rtsafe_memory_pool_deallocate,
\* rtsafe_memory_allocate or rtsafe_memory_deallocate calls malloc or free:
\* the chunks that exist for each pool are the same before and after it.
C13_NoSystemAllocation ==
  [][(th'["rt"] # th["rt"] /\ (th["rt"].op \in FastOps \/ th'["rt"].op \in FastOps)) =>
       /\ DOMAIN heap' = DOMAIN heap
       /\ \A q \in DOMAIN pool : ChunksOf(q)' = ChunksOf(q)]_vars

\* The first pool has handed out chunks: one is out and one has come back.
C13_Witness ==
  /\ TieredReady /\ AllIdle
  /\ \E d \in held : heap[Base(d)].hdr = mem.pools[0].pool
  /\ \E a \in Members(pool[mem.pools[0].pool].unused) :
       heap[a].hdr = mem.pools[0].pool

\* rtsafe_memory_init has returned false.
InitFailed == th["mt"].op = "idle" /\ ~ready /\ Running

\* C14: when rtsafe_memory_pool_create fails for pool i during
\* rtsafe_memory_init, the pools below i are destroyed one after the other
\* with all their chunks, and when rtsafe_memory_init has returned false no
\* pool and no chunk is left, the allocator is freed and no handle was
\* published.
C14_InitFailureCleansUp ==
  /\ (th["mt"].pc = "init_fail" /\ Running) =>
       /\ DOMAIN pool = 0..(th["mt"].i - 1)
       /\ \A a \in DOMAIN heap : heap[a].owner \in DOMAIN pool
       /\ ~ready
  /\ InitFailed =>
       /\ DOMAIN pool = {}
       /\ DOMAIN heap = {}
       /\ mem = NoMem

\* The first pool was created and the second was not (the table holds the
\* first one's handle only); the first pool has been destroyed again and
\* lines 384-390 are next.
C14_Witness ==
  /\ th["mt"].pc = "init_fail" /\ th["mt"].i = 0 /\ Running
  /\ DOMAIN mem.pools = {0, 1}
  /\ mem.pools[0].pool = 0 /\ mem.pools[1].pool = -1
  /\ DOMAIN pool = {} /\ DOMAIN heap = {}

InFastCall ==
  th["rt"].pc \in {"allocate", "replenish", "replenish_locked",
                   "deallocate", "surplus", "surplus_locked"}

\* C16: while no allocate or deallocate call is in progress, in either
\* mode, unused_count is the length of the unused list and used_count is the
\* number of chunks handed out and not given back, neither below 0; and an
\* allocate call returns NULL exactly when it finds unused_count = 0.
C16_CountsMatchLists ==
  /\ [](~InFastCall =>
         \A p \in DOMAIN pool :
           /\ pool[p].unused_count = Len(pool[p].unused)
           /\ pool[p].used_count = Cardinality({d \in held : heap[Base(d)].owner = p})
           /\ pool[p].unused_count >= 0 /\ pool[p].used_count >= 0)
  /\ [][(th["rt"].pc = "allocate" /\ th'["rt"] # th["rt"]) =>
          LET unused_count == pool[th["rt"].pool].unused_count
          IN /\ unused_count = 0 <=> th'["rt"].pc # "replenish"
             /\ unused_count = 0 => held' = held
             /\ (unused_count = 0 /\ th["rt"].op = "allocate") => gh'.ret = NULL]_vars

\* An allocate call has returned NULL on an empty unused list while chunks
\* are out.
C16_Witness ==
  /\ AllIdle /\ ready
  /\ gh.ret = NULL
  /\ pool[0].unused_count = 0
  /\ pool[0].used_count >= 2

\* Thread t is between a lock and the unlock of pool p's mutex: in a
\* maintenance pass after line 153, or in the locked section of allocate
\* (lines 233-244) or deallocate (lines 265-278).
InLockedSection(t, p) ==
  /\ th[t].pool = p
  /\ th[t].pc \in {"grow", "trim", "replenish_locked", "surplus_locked"}

\* C17: in thread-safe mode, with maintenance and the realtime calls running
\* concurrently, at most one thread is inside a locked section of a pool
\* and it is the holder of the pool's mutex; the pending list and
\* unused_count2 change only in steps of that thread; and no step of a
\* maintenance pass changes the unused list or unused_count.
C17_MutexDiscipline ==
  /\ [](\A p \in DOMAIN pool :
          pool[p].enforce_thread_safety =>
            /\ Cardinality({t \in Threads : InLockedSection(t, p)}) <= 1
            /\ \A t \in Threads : InLockedSection(t, p) <=> pool[p].mutex = t)
  /\ [][\A p \in DOMAIN pool :
          pool[p].enforce_thread_safety =>
            /\ (pool'[p].pending # pool[p].pending
                  \/ pool'[p].unused_count2 # pool[p].unused_count2) =>
                 \E t \in Threads : th'[t] # th[t] /\ InLockedSection(t, p)
            /\ \A t \in Threads :
                 (th'[t] # th[t] /\ th[t].pc \in {"sleepy", "grow", "trim"}) =>
                   /\ pool'[p].unused = pool[p].unused
                   /\ pool'[p].unused_count = pool[p].unused_count]_vars

\* A maintenance pass holds the mutex with chunks on the pending list while
\* the pass of an allocate_sleepy call on the other thread waits for it.
C17_Witness ==
  /\ pool[0].enforce_thread_safety
  /\ th["mt"].pc = "trim" /\ pool[0].mutex = "mt"
  /\ th["rt"].pc = "sleepy"
  /\ Len(pool[0].pending) >= 2

\* The rtsafe_memory_allocate call running on "rt" has selected a pool and
\* that pool's unused list is empty.
SelectedPoolEmpty ==
  /\ th["rt"].op = "mem_allocate" /\ th["rt"].pc = "allocate"
  /\ list_empty(pool[th["rt"].pool].unused)

\* C18: when the pool rtsafe_memory_allocate selected has an empty unused
\* list, the call returns NULL: it ends in its next step, the application
\* gets no pointer, and no pool's lists or counts and no chunk change,
\* whatever the larger pools hold.
C18_NoFallback ==
  [][(SelectedPoolEmpty /\ th'["rt"] # th["rt"]) =>
       /\ th'["rt"] = Idle
       /\ held' = held
       /\ pool' = pool
       /\ heap' = heap]_vars

\* The call has selected the empty first pool while the next larger pool,
\* whose chunks would hold the request, has a chunk on its unused list.
C18_Witness ==
  /\ TieredReady /\ mem.pools_count > 1
  /\ SelectedPoolEmpty /\ th["rt"].i = 0
  /\ ~list_empty(pool[mem.pools[1].pool].unused)

\* C19: a thread that has returned from a call, or stands before the lock
\* of the call it is in, holds no pool mutex, also when malloc failed in the
\* growth loop of its pass; a thread that holds the mutex is never kept
\* from its next step; and with both threads scheduled fairly a maintenance
\* call waiting on line 153 gets the mutex.  A failed assertion ends the
\* program and with it every obligation.
C19_MutexReleased ==
  /\ [](\A t \in Threads : \A p \in DOMAIN pool :
          /\ th[t].pc \in {"idle", "sleepy", "allocate", "deallocate"} =>
               pool[p].mutex # t
          /\ (pool[p].mutex = t /\ Running) => ENABLED ThreadStep(t))
  /\ (pool[0].enforce_thread_safety /\ th["mt"].pc = "sleepy")
       ~> (pool[0].mutex = "mt" \/ ~Running)

\* The maintenance thread waits for the mutex, held by a pass on the other
\* thread that has just left its growth loop because malloc failed.
C19_Witness ==
  /\ pool[0].enforce_thread_safety
  /\ th["mt"].op = "sleepy" /\ th["mt"].pc = "sleepy"
  /\ pool[0].mutex = "rt" /\ th["rt"].pc = "trim"
  /\ th["rt"].count < pool[0].min_preallocated

\* rtsafe_memory_pool_destroy is about to run on pool 0.
InDestroy == th["mt"].op = "destroy" /\ th["mt"].pc = "destroy"

\* C20: when rtsafe_memory_pool_destroy runs on a pool of either mode whose
\* used_count is 0, no assertion fails and nothing undefined happens, the
\* call returns, every chunk on the unused and pending lists is freed, and
\* no chunk and no pool is left allocated.
C20_NoLeakAtTeardown ==
  [][(InDestroy /\ pool[0].used_count = 0 /\ th' # th) =>
       /\ assert_failed' = "none"
       /\ th'["mt"] = Idle
       /\ (Members(pool[0].unused) \cup Members(pool[0].pending))
             \cap DOMAIN heap' = {}
       /\ DOMAIN heap' = {}
       /\ DOMAIN pool' = {}]_vars

\* The pool is gone and the heap is empty after a teardown that followed
\* the return of a chunk by deallocate, so that the unused list held it.
C20_Witness ==
  /\ DOMAIN pool = {} /\ DOMAIN heap = {}
  /\ assert_failed = "none" /\ th["mt"] = Idle /\ ~ready
  /\ gh.freed # NULL

====
